---- MODULE Spec2Model ----
(***************************************************************************)
(* Model of ts-node-cache (src/src/Cache.ts): class Cache<T>, a key-value  *)
(* store whose records may carry a deadline and a one-shot timer.          *)
(*                                                                         *)
(* The object's fields are the variables _cache, _size, _hitCount,         *)
(* _missCount and _debug.  The platform the class runs on is modelled by   *)
(* now (Date.now()), timers (the pending setTimeout timers with the        *)
(* variables their closures captured) and nextId (the identity of the next *)
(* Timeout object).  json is the text last produced by exportJson, ret the *)
(* outcome of the last call, and hist, last and exported are history       *)
(* variables that the properties read and the operations never do.         *)
(***************************************************************************)
EXTENDS Integers, Sequences, FiniteSets, TLC

VARIABLES _cache, _size, _hitCount, _missCount, _debug,
          timers, nextId, now, json, ret, hist, last, exported

vars == <<_cache, _size, _hitCount, _missCount, _debug,
          timers, nextId, now, json, ret, hist, last, exported>>

(* ---------------------------- bounds ----------------------------------- *)

\* Date.now() runs over 0..MaxTime.
MaxTime == 2
\* At most MaxTimers Timeout objects are ever created.
MaxTimers == 2
\* The hit and miss counters are followed up to MaxCount.
MaxCount == 2

(* ---------------------------- JS numbers ------------------------------- *)

\* The number Infinity: larger than every finite number of the model.
Infinity == 1000000

isFinite(x) == x # Infinity

\* Node's TIMEOUT_MAX, 2^31 - 1 ms (24.8 days): a number larger than every
\* sum of the model's small delays and times, and smaller than Large.
TIMEOUT_MAX == 100000

\* A finite number of milliseconds above TIMEOUT_MAX, such as 30 days.
Large == 500000

Add(a, b) == IF a = Infinity \/ b = Infinity THEN Infinity ELSE a + b

Sub(a, b) == IF a = Infinity THEN Infinity ELSE a - b

(* ---------------------------- inputs ----------------------------------- *)

\* The values stored.
Values == {"v1", "v2"}

Null == "null"

Undefined == [kind |-> "undefined", num |-> 0]

Num(n) == [kind |-> "number", num |-> n]

\* The third argument of put: absent, a number (typeof 'number', NaN
\* included) or something that is not a number.
Times == {Undefined, Num(-1), Num(0), Num(1), Num(2), Num(Infinity),
          [kind |-> "NaN", num |-> 0], [kind |-> "string", num |-> 0]}

\* The keys that the model draws from: plain strings, array indices, and
\* the names that Object.prototype defines.
AllKeys == {"a", "b", "1", "2", "__proto__", "hasOwnProperty"}

\* The fourth argument of put: absent, a function, or a string.
Callbacks == {"undefined", "function", "string"}

\* The functions given as callbacks: "function" looks at the cache and
\* changes nothing, "reput" is (key, value) => cache.put(key, value).
IsFunction(cb) == cb \in {"function", "reput"}

(* ---------------------------- the record store ------------------------- *)

\* this._cache is a sequence of [key, value, expire, timeout] in the order
\* in which a JS object enumerates its own string keys; timeout is the id of
\* the record's Timeout object, 0 for undefined.
NoTimeout == 0

Seq2Set(s) == {s[i] : i \in 1..Len(s)}

CacheKeys(c) == {c[i].key : i \in 1..Len(c)}

Has(c, key) == key \in CacheKeys(c)

Lookup(c, key) == c[CHOOSE i \in 1..Len(c) : c[i].key = key]

\* An array index key ("1", "2") enumerates before every other key, in
\* ascending numeric order; -1 for a key that is no array index.
ArrayIndex(key) == CASE key = "1" -> 1 [] key = "2" -> 2 [] OTHER -> -1

\* Does key a enumerate before key b, b being created after a?
Before(a, b) ==
    IF ArrayIndex(b) >= 0 THEN ArrayIndex(a) >= 0 /\ ArrayIndex(a) < ArrayIndex(b)
    ELSE TRUE

RECURSIVE InsertOrdered(_, _)
InsertOrdered(c, e) ==
    IF c = <<>> THEN <<e>>
    ELSE IF Before(c[1].key, e.key) THEN <<c[1]>> \o InsertOrdered(Tail(c), e)
    ELSE <<e>> \o c

\* this._cache[key] = record
SetRecord(c, e) ==
    IF Has(c, e.key)
    THEN [i \in 1..Len(c) |-> IF c[i].key = e.key THEN e ELSE c[i]]
    ELSE InsertOrdered(c, e)

\* delete this._cache[key]
DeleteKey(c, key) == SelectSeq(c, LAMBDA e : e.key # key)

(* ---------------------------- timers ----------------------------------- *)

\* clearTimeout that cancels nothing.
clearTimeoutNothing(T, h) == T

\* clearTimeout(h): the timer h, if pending, is removed; clearTimeout of
\* undefined or of a timer that fired does nothing.
clearTimeout(T, h) == {t \in T : t.id # h}

\* Node sets a delay that is not in [1, TIMEOUT_MAX] to 1 ms.
TimerDelay(after) ==
    IF isFinite(after) /\ after >= 1 /\ after <= TIMEOUT_MAX THEN after ELSE 1

\* A closure that reads the value after the record was deleted.
setTimeoutLateValue(T, id, clock, key, value, cb, after) ==
    T \cup {[id |-> id, key |-> key, value |-> Null, cb |-> cb,
             due |-> clock + TimerDelay(after)]}

\* setTimeout(closure, after) at time clock: the closure captures key, value
\* and timeoutCallback of the put that made it.
setTimeout(T, id, clock, key, value, cb, after) ==
    T \cup {[id |-> id, key |-> key, value |-> value, cb |-> cb,
             due |-> clock + TimerDelay(after)]}

(* ---------------------------- put -------------------------------------- *)

\* A world is what a method can change besides the counters:
\* [cache, size, timers, nextId].
World(c, n, T, id) == [cache |-> c, size |-> n, timers |-> T, nextId |-> id]

TimeoutError == "Error: Cache timeout must be a positive number"

CallbackError == "Error: Cache timeout callback must be a function"

\* typeof time !== 'number' || isNaN(time) || time <= 0
BadTime(time) ==
    \/ time.kind \notin {"number", "NaN"}
    \/ time.kind = "NaN"
    \/ time.num <= 0

\* typeof timeoutCallback !== 'function'
BadCallback(cb) == ~IsFunction(cb)

\* Lines 29-45 of put: the part after the two checks.
Store(w, clock, key, value, time, cb) ==
    LET old    == Has(w.cache, key)
        T1     == IF old THEN clearTimeout(w.timers, Lookup(w.cache, key).timeout)
                  ELSE w.timers
        n1     == IF old THEN w.size ELSE w.size + 1
        timed  == time # Undefined
        expire == IF timed THEN Add(time.num, clock) ELSE Infinity
        T2     == IF timed
                  THEN setTimeout(T1, w.nextId, clock, key, value, cb, time.num)
                  ELSE T1
        rec    == [key |-> key, value |-> value, expire |-> expire,
                   timeout |-> IF timed THEN w.nextId ELSE NoTimeout]
    IN  World(SetRecord(w.cache, rec), n1, T2,
              IF timed THEN w.nextId + 1 ELSE w.nextId)

\* put that checks the callback after it stored the record.
putChecksLate(w, clock, key, value, time, cb) ==
    IF time # Undefined /\ BadTime(time)
    THEN [w |-> w, res |-> TimeoutError]
    ELSE IF cb # "undefined" /\ BadCallback(cb)
    THEN [w |-> Store(w, clock, key, value, time, cb), res |-> CallbackError]
    ELSE [w |-> Store(w, clock, key, value, time, cb), res |-> value]

\* put(key, value, time, timeoutCallback): the new world and what the call
\* returns or throws.
put(w, clock, key, value, time, cb) ==
    IF time # Undefined /\ BadTime(time)
    THEN [w |-> w, res |-> TimeoutError]
    ELSE IF cb # "undefined" /\ BadCallback(cb)
    THEN [w |-> w, res |-> CallbackError]
    ELSE [w |-> Store(w, clock, key, value, time, cb), res |-> value]

Threw(res) == res \in {TimeoutError, CallbackError}

(* ---------------------------- del, clear, get -------------------------- *)

\* _del that forgets the counter.
_delKeepsSize(w, key) == [w EXCEPT !.cache = DeleteKey(w.cache, key)]

\* _del(key): delete this._cache[key]; this._size--
_del(w, key) == [w EXCEPT !.cache = DeleteKey(w.cache, key), !.size = w.size - 1]

\* del that leaves the record's timer pending.
delKeepsTimer(w, key) ==
    IF ~Has(w.cache, key) THEN [w |-> w, res |-> "false"]
    ELSE [w |-> _del(w, key), res |-> "true"]

\* del(key)
del(w, key) ==
    IF ~Has(w.cache, key) THEN [w |-> w, res |-> "false"]
    ELSE [w |-> _del([w EXCEPT !.timers =
                         clearTimeout(w.timers, Lookup(w.cache, key).timeout)], key),
          res |-> "true"]

\* A forEach that cancels no timer.
ClearAllNothing(c, T) == T

RECURSIVE ClearAll(_, _)
\* Object.values(this._cache).forEach((record) => clearTimeout(record.timeout))
ClearAll(c, T) ==
    IF c = <<>> THEN T ELSE ClearAll(Tail(c), clearTimeout(T, c[1].timeout))

\* clear(), the counters apart
clear(w) == [w EXCEPT !.timers = ClearAll(w.cache, w.timers),
                      !.cache = <<>>, !.size = 0]

\* The check of get with <= for <.
MissAtDeadline(c, clock, key) == ~Has(c, key) \/ Lookup(c, key).expire <= clock

\* !record || record.expire < Date.now()
Miss(c, clock, key) == ~Has(c, key) \/ Lookup(c, key).expire < clock

\* get(key), the counters apart
get(c, clock, key) == IF Miss(c, clock, key) THEN Null ELSE Lookup(c, key).value

\* size()
size == _size

\* hits()
hits == _hitCount

\* misses()
misses == _missCount

\* keys()
keys == [i \in 1..Len(_cache) |-> _cache[i].key]

(* ---------------------------- exportJson, importJson ------------------- *)

\* JSON.stringify of a stored value: a string is quoted.
JsonStringify(v) ==
    CASE v = "v1" -> "\"v1\"" [] v = "v2" -> "\"v2\"" [] OTHER -> "null"

\* JSON.parse of a value.
JsonParse(j) ==
    CASE j = "\"v1\"" -> "v1" [] j = "\"v2\"" -> "v2" [] OTHER -> Null

\* A member of the exported object: key, the value's JSON text, and expire,
\* which is a number or the string "NaN".
Member(key, value, expire) ==
    [key |-> key, value |-> JsonStringify(value),
     type |-> IF isFinite(expire) THEN "number" ELSE "string",
     num |-> IF isFinite(expire) THEN expire ELSE 0]

RECURSIVE exportJson(_)
\* exportJson(): plainJsCache is an ordinary object {}, so assigning its
\* "__proto__" sets its prototype and creates no member.
exportJson(c) ==
    IF c = <<>> THEN <<>>
    ELSE IF c[1].key = "__proto__" THEN exportJson(Tail(c))
    ELSE <<Member(c[1].key, c[1].value, c[1].expire)>> \o exportJson(Tail(c))

TypeError == "TypeError: cacheToImport.hasOwnProperty is not a function"

\* typeof expire === 'number' ? expire - currTime : Infinity
RemainingTime(m, currTime) ==
    IF m.type = "number" THEN Sub(m.num, currTime) ELSE Infinity

RECURSIVE ImportLoop(_, _, _, _, _)
\* The loop of importJson over the members that are left; parsed is the
\* whole object, whose own member "hasOwnProperty" hides the method.
ImportLoop(w, clock, parsed, left, skip) ==
    IF left = <<>> THEN [w |-> w, res |-> "ok"]
    ELSE IF Has(parsed, "hasOwnProperty") THEN [w |-> w, res |-> TypeError]
    ELSE LET m  == left[1]
             rt == RemainingTime(m, clock)
         IN  IF rt <= 0 \/ (skip /\ Has(w.cache, m.key))
             THEN ImportLoop(w, clock, parsed, Tail(left), skip)
             ELSE ImportLoop(
                    put(w, clock, m.key, JsonParse(m.value),
                        IF rt > 0 THEN Num(rt) ELSE Undefined, "undefined").w,
                    clock, parsed, Tail(left), skip)

\* importJson(jsonToImport, options): the new world, and whether it threw;
\* it returns the new world's size.
importJson(w, clock, text, skip) == ImportLoop(w, clock, text, text, skip)

(* ---------------------------- history variables ------------------------ *)

\* last[k]: the most recent successful put or import of k, while its record
\* has not been removed by del, by clear or by its own timer.
NoRecord == [stored |-> FALSE, value |-> Null, expire |-> 0, id |-> NoTimeout]

Stored(v, e, id) == [stored |-> TRUE, value |-> v, expire |-> e, id |-> id]

\* The timeout ids of the records that c stores.
TimeoutsOf(c) == {c[i].timeout : i \in 1..Len(c)} \ {NoTimeout}

\* hist[id]: whether the record of the put that created timer id is still
\* stored ("live") or no longer is ("done": replaced, deleted, cleared, or
\* removed by the firing of its timer), or whether its timer fired after the
\* record had been replaced, deleted or cleared ("stale"); while it is
\* live, the arguments of that put; n, how often that put's callback was
\* invoked; and ok, whether every invocation was of a callback that was
\* given, with that put's key and value.
Armed(key, value, cb) ==
    [key |-> key, value |-> value, cb |-> cb, st |-> "live", n |-> 0, ok |-> TRUE]

\* A record that is no longer live: its arguments are forgotten.
Forgotten(st, n, ok) ==
    [key |-> "", value |-> "", cb |-> "", st |-> st, n |-> n, ok |-> ok]

\* Records that are no longer stored are done.
Gone(h, c) ==
    [i \in 1..Len(h) |->
        IF h[i].st = "live" /\ i \notin TimeoutsOf(c)
        THEN Forgotten("done", h[i].n, h[i].ok) ELSE h[i]]

RECURSIVE Imported(_, _, _)
\* The history of the timers that an import created, read from the timers.
Imported(h, T, upto) ==
    IF Len(h) + 1 >= upto THEN h
    ELSE LET t == CHOOSE x \in T : x.id = Len(h) + 1
         IN  Imported(Append(h, Armed(t.key, t.value, t.cb)), T, upto)

(* ---------------------------- the state machine ------------------------ *)

\* ret: the last call (or platform step), the key it was about, what it
\* returned or threw as text, and what it returned as a number.
Ret(op, key, res, n) == [op |-> op, key |-> key, res |-> res, n |-> n]

Self == World(_cache, _size, timers, nextId)

Becomes(w) ==
    /\ _cache' = w.cache
    /\ _size' = w.size
    /\ timers' = w.timers
    /\ nextId' = w.nextId

Init ==
    /\ _cache = <<>>
    /\ _size = 0
    /\ _hitCount = 0
    /\ _missCount = 0
    /\ _debug = FALSE
    /\ timers = {}
    /\ nextId = 1
    /\ now = 0
    /\ json = <<>>
    /\ ret = Ret("new", "", "", 0)
    /\ hist = <<>>
    /\ last = [k \in AllKeys |-> NoRecord]
    /\ exported = <<>>

\* cache.put(k, v, time, cb)
Put(k, v, time, cb) ==
    LET r == put(Self, now, k, v, time, cb)
    IN  /\ r.w.nextId <= MaxTimers + 1
        /\ Becomes(r.w)
        /\ ret' = Ret("put", IF Threw(r.res) THEN "" ELSE k, r.res, 0)
        /\ IF Threw(r.res)
           THEN UNCHANGED <<hist, last>>
           ELSE /\ hist' = Gone(IF time # Undefined
                                THEN Append(hist, Armed(k, v, cb)) ELSE hist,
                                r.w.cache)
                /\ last' = [x \in DOMAIN last |->
                              IF x = k
                              THEN Stored(v, IF time # Undefined
                                             THEN Add(time.num, now) ELSE Infinity,
                                          Lookup(r.w.cache, k).timeout)
                              ELSE last[x]]
        /\ UNCHANGED <<_hitCount, _missCount, _debug, now, json, exported>>

\* A get that counts whether debug mode is on or off.
GetCountsAlways(k) ==
    LET v == get(_cache, now, k)
    IN  /\ _hitCount < MaxCount /\ _missCount < MaxCount
        /\ _missCount' = IF Miss(_cache, now, k) THEN _missCount + 1 ELSE _missCount
        /\ _hitCount' = IF ~Miss(_cache, now, k) THEN _hitCount + 1 ELSE _hitCount
        /\ ret' = Ret("get", k, v, 0)
        /\ UNCHANGED <<_cache, _size, _debug, timers, nextId, now, json, hist,
                       last, exported>>

\* cache.get(k)
Get(k) ==
    LET v == get(_cache, now, k)
    IN  /\ _debug => (_hitCount < MaxCount /\ _missCount < MaxCount)
        /\ _missCount' = IF _debug /\ Miss(_cache, now, k)
                         THEN _missCount + 1 ELSE _missCount
        /\ _hitCount' = IF _debug /\ ~Miss(_cache, now, k)
                        THEN _hitCount + 1 ELSE _hitCount
        /\ ret' = Ret("get", k, v, 0)
        /\ UNCHANGED <<_cache, _size, _debug, timers, nextId, now, json, hist,
                       last, exported>>

\* cache.del(k)
Del(k) ==
    LET r == del(Self, k)
    IN  /\ Becomes(r.w)
        /\ ret' = Ret("del", k, r.res, 0)
        /\ hist' = Gone(hist, r.w.cache)
        /\ last' = [x \in DOMAIN last |-> IF x = k THEN NoRecord ELSE last[x]]
        /\ UNCHANGED <<_hitCount, _missCount, _debug, now, json, exported>>

\* cache.clear()
Clear ==
    LET w == clear(Self)
    IN  /\ Becomes(w)
        /\ _hitCount' = IF _debug THEN 0 ELSE _hitCount
        /\ _missCount' = IF _debug THEN 0 ELSE _missCount
        /\ ret' = Ret("clear", "", "", 0)
        /\ hist' = Gone(hist, w.cache)
        /\ last' = [x \in DOMAIN last |-> NoRecord]
        /\ UNCHANGED <<_debug, now, json, exported>>

\* cache.debug(b)
Debug(b) ==
    /\ _debug # b
    /\ _debug' = b
    /\ ret' = Ret("debug", "", "", 0)
    /\ UNCHANGED <<_cache, _size, _hitCount, _missCount, timers, nextId, now,
                   json, hist, last, exported>>

\* The clock advances by a millisecond.
Tick ==
    /\ now < MaxTime
    /\ now' = now + 1
    /\ ret' = Ret("tick", "", "", 0)
    /\ UNCHANGED <<_cache, _size, _hitCount, _missCount, _debug, timers, nextId,
                   json, hist, last, exported>>

\* A closure that deletes nothing.
ExpireKeepsRecord(w, t) == [w EXCEPT !.timers = w.timers \ {t}]

\* The closure of put's setTimeout, the callback apart: this._del(key)
Expire(w, t) == _del([w EXCEPT !.timers = w.timers \ {t}], t.key)

\* timeoutCallback?.(key, value), called on the world w.
Callback(w, clock, t) ==
    IF t.cb = "reput"
    THEN put(w, clock, t.key, t.value, Undefined, "undefined").w
    ELSE w

\* A closure that calls the callback before it deletes the record.
ClosureCallbackFirst(w, clock, t) ==
    LET mid == [w EXCEPT !.timers = w.timers \ {t}]
    IN  [mid |-> mid, w |-> _del(Callback(mid, clock, t), t.key)]

\* The closure of put's setTimeout: this._del(key), then the callback; mid
\* is the world that the callback is called on, w the world it leaves.
Closure(w, clock, t) ==
    LET mid == Expire(w, t)
    IN  [mid |-> mid, w |-> Callback(mid, clock, t)]

\* A pending timer fires, at or after the time it is due, and its closure
\* runs.
Fire(t) ==
    LET w == Closure(Self, now, t).w
        e == hist[t.id]
        h == [hist EXCEPT ![t.id] =
                IF IsFunction(t.cb)
                THEN Forgotten(IF e.st = "live" THEN "done" ELSE "stale",
                               e.n + 1,
                               /\ e.ok
                               /\ e.cb = t.cb
                               /\ <<t.key, t.value>> = <<e.key, e.value>>)
                ELSE Forgotten(IF e.st = "live" THEN "done" ELSE "stale",
                               e.n, e.ok)]
    IN  /\ t \in timers
        /\ now >= t.due
        /\ Becomes(w)
        /\ ret' = Ret("fire", t.key, "", t.id)
        /\ hist' = Gone(h, w.cache)
        /\ last' = [x \in DOMAIN last |->
                      IF x = t.key /\ t.cb = "reput"
                      THEN Stored(t.value, Infinity, NoTimeout)
                      ELSE IF x = t.key /\ last[x].id = t.id THEN NoRecord
                      ELSE last[x]]
        /\ UNCHANGED <<_hitCount, _missCount, _debug, now, json, exported>>

\* json = cache.exportJson(); exported remembers the records exported.
ExportJson ==
    /\ json' = exportJson(_cache)
    /\ exported' = [i \in 1..Len(_cache) |->
                       [key |-> _cache[i].key, value |-> _cache[i].value,
                        expire |-> _cache[i].expire]]
    /\ ret' = Ret("exportJson", "", "", 0)
    /\ UNCHANGED <<_cache, _size, _hitCount, _missCount, _debug, timers, nextId,
                   now, hist, last>>

\* Is member m of the text put by an import at time clock into a cache that
\* stores the keys held?
Inserts(m, clock, held, skip) ==
    /\ m.type = "number" => m.num > clock
    /\ ~(skip /\ m.key \in held)

\* cache.importJson(json, {skipDuplicates: skip})
ImportJson(skip) ==
    LET r  == importJson(Self, now, json, skip)
        ms == {m \in Seq2Set(json) : Inserts(m, now, CacheKeys(_cache), skip)}
    IN  /\ r.w.nextId <= MaxTimers + 1
        /\ Becomes(r.w)
        /\ ret' = Ret("importJson", IF skip THEN "skip" ELSE "", r.res,
                      IF r.res = "ok" THEN r.w.size ELSE 0)
        /\ hist' = Gone(Imported(hist, r.w.timers, r.w.nextId), r.w.cache)
        /\ last' = IF r.res # "ok" THEN last
                   ELSE [x \in DOMAIN last |->
                           IF \E m \in ms : m.key = x
                           THEN LET m == CHOOSE m \in ms : m.key = x
                                IN  Stored(JsonParse(m.value),
                                           IF m.type = "number" THEN m.num ELSE Infinity,
                                           Lookup(r.w.cache, x).timeout)
                           ELSE last[x]]
        /\ UNCHANGED <<_hitCount, _missCount, _debug, now, json, exported>>

\* The world of a cache that was just constructed.
NewCache == World(<<>>, 0, {}, nextId)

\* fresh = new Cache(); fresh.importJson(json): the new object is looked at
\* and dropped, and the timers it armed with it.
ImportFresh ==
    LET r == importJson(NewCache, now, json, FALSE)
    IN  /\ ret' = Ret("importFresh", "", r.res, IF r.res = "ok" THEN r.w.size ELSE 0)
        /\ UNCHANGED <<_cache, _size, _hitCount, _missCount, _debug, timers, nextId,
                       now, json, hist, last, exported>>

\* The calls that change the records, over the keys K, with the times TS
\* and the callbacks CBS as put's third and fourth argument.
Changes(K, TS, CBS) ==
    \/ \E k \in K, v \in Values, time \in TS, cb \in CBS : Put(k, v, time, cb)
    \/ \E k \in K : Del(k)
    \/ Clear

\* Those and get.
Calls(K, TS, CBS) ==
    \/ Changes(K, TS, CBS)
    \/ \E k \in K : Get(k)

\* The clock and the timers.
Platform ==
    \/ Tick
    \/ \E t \in timers : Fire(t)

Keys == {"a", "1"}

\* The times that pass put's check.
ValidTimes == {Undefined, Num(1), Num(2), Num(Infinity)}

\* put with arguments that pass its checks, get, del and clear, the clock
\* and the timers.
Next ==
    \/ Calls(Keys, ValidTimes, {"undefined", "function"})
    \/ Platform

Spec == Init /\ [][Next]_vars

\* The calls that change the records, with a clock that advances and timers
\* that fire: node's event loop runs every timer that is due.
NextFair ==
    \/ Changes(Keys, ValidTimes, {"undefined", "function"})
    \/ Platform

FairSpec ==
    /\ Init /\ [][NextFair]_vars
    /\ WF_vars(Tick)
    /\ \A id \in 1..MaxTimers : WF_vars(\E t \in timers : t.id = id /\ Fire(t))

\* Export and import, with puts that succeed, over the keys K.
NextJsonOver(K) ==
    \/ Calls(K, {Undefined, Num(1)}, {"undefined"})
    \/ Platform
    \/ ExportJson
    \/ \E skip \in BOOLEAN : ImportJson(skip)
    \/ ImportFresh

NextJson == NextJsonOver(Keys)

SpecJson == Init /\ [][NextJson]_vars

\* The same over a key that Object.prototype defines as a method.
NextOwn == NextJsonOver({"a", "hasOwnProperty"})

SpecOwn == Init /\ [][NextOwn]_vars

\* One key, every kind of argument, and the debug flag.
NextDebug ==
    \/ Calls({"a"}, Times, Callbacks)
    \/ Platform
    \/ \E b \in BOOLEAN : Debug(b)

SpecDebug == Init /\ [][NextDebug]_vars

\* One key, with ttls of 1 ms, of 3 ms and of more than TIMEOUT_MAX, and
\* export and import.
NextTimes ==
    \/ Calls({"a"}, {Num(1), Num(3), Num(Large)}, {"undefined"})
    \/ Platform
    \/ ExportJson
    \/ \E skip \in BOOLEAN : ImportJson(skip)
    \/ ImportFresh

SpecTimes == Init /\ [][NextTimes]_vars

\* A key that Object.prototype defines as an accessor, put, read and
\* exported.
NextProto ==
    \/ Calls({"__proto__"}, {Undefined, Num(1)}, {"undefined"})
    \/ Platform
    \/ ExportJson

SpecProto == Init /\ [][NextProto]_vars

\* Callbacks that look at the cache and callbacks that put their key again.
NextCallback ==
    \/ Calls(Keys, {Undefined, Num(1)}, {"function", "reput"})
    \/ Platform

SpecCallback == Init /\ [][NextCallback]_vars

(* ---------------------------- C1 --------------------------------------- *)

\* What get(k) is to return: the value of the most recent put or import of
\* k, if its record was not removed since and its deadline is not before now.
Expected(k) ==
    IF last[k].stored /\ ~(last[k].expire < now) THEN last[k].value ELSE Null

\* C1: in every state get(k) yields the value of the most recent successful
\* put or import of k unless that record was removed by del, clear or its
\* own timer or its deadline is strictly before the current time, and null
\* in every other case; and that is what the last call of get returned.
C1_GetReturnsLatest ==
    /\ \A k \in AllKeys : get(_cache, now, k) = Expected(k)
    /\ ret.op = "get" => ret.res = Expected(ret.key)

\* get returned the value of a record with a timer at its deadline, after
\* an earlier record with a timer had been replaced or removed, and after an
\* export.
C1_Witness ==
    /\ ret.op = "get"
    /\ ret.res = "v2"
    /\ last[ret.key].expire = now
    /\ Len(hist) = 2
    /\ hist[1].st = "done"
    /\ json # <<>>

(* ---------------------------- C2 --------------------------------------- *)

\* C2: size() is the number of keys stored, and so never negative; a put of
\* a stored key leaves size() as it is, a put of a new key adds one to it.
C2_SizeIsCardinality ==
    /\ [](/\ size = Cardinality(CacheKeys(_cache))
          /\ size = Len(keys)
          /\ size >= 0)
    /\ [][(ret'.op = "put" /\ ~Threw(ret'.res)) =>
            size' = IF Has(_cache, ret'.key) THEN size ELSE size + 1]_vars

\* A put of a stored key returned with two keys stored, after time had
\* passed, a record with a timer had been replaced or removed, and an
\* export.
C2_Witness ==
    /\ size = 2
    /\ ret.op = "put"
    /\ last[ret.key].id = 2
    /\ hist[1].st = "done"
    /\ now > 0
    /\ json # <<>>

(* ---------------------------- C3 --------------------------------------- *)

\* C3: each key has at most one pending timer, every pending timer is the
\* timer of the record stored under its key, and no timer ever fired after
\* its record had been replaced, deleted or cleared.
C3_TimersBelongToRecords ==
    /\ \A t \in timers :
          /\ Has(_cache, t.key)
          /\ Lookup(_cache, t.key).timeout = t.id
          /\ hist[t.id].st = "live"
    /\ \A t1, t2 \in timers : t1.key = t2.key => t1 = t2
    /\ \A i \in 1..Len(hist) : hist[i].st # "stale"

\* A put has just replaced a record that had a pending timer (no timer can
\* have fired at time 0), and the new record's timer is the only one
\* pending.
C3_Witness ==
    /\ now = 0
    /\ ret.op = "put"
    /\ Len(hist) = 2
    /\ hist[1].st = "done"
    /\ hist[2].st = "live"
    /\ Cardinality(timers) = 1

(* ---------------------------- C4 --------------------------------------- *)

\* C4: the callback of a put is invoked at most once, with the key and the
\* value of that put, only by the firing of the timer of that put's record
\* while that record is stored, and only if it was given; never for a
\* record that was deleted, cleared or replaced.
C4_CallbackOnceOnExpiry ==
    \A i \in 1..Len(hist) :
        /\ hist[i].n <= 1
        /\ hist[i].ok
        /\ hist[i].n > 0 => hist[i].st = "done"
        /\ hist[i].st = "live" => hist[i].n = 0

\* The callback of the second put ran when its timer fired, after the
\* record of the first put had been removed without a callback running.
C4_Witness ==
    /\ Len(hist) = 2
    /\ ret.op = "fire"
    /\ ret.n = 2
    /\ hist[2].n = 1
    /\ hist[1].st = "done"
    /\ hist[1].n = 0

(* ---------------------------- C5 --------------------------------------- *)

\* The pending timer of record id is due within the time the model follows.
DueInTime(id) == \E t \in timers : t.id = id /\ t.due <= MaxTime

\* What became of the record of timer id; "none" before the timer exists.
StateOf(id) == IF id <= Len(hist) THEN hist[id].st ELSE "none"

\* C5 as stated in its last part: from its deadline onward, the deadline
\* itself included, get of a stored record returns null.
C5_AbsentFromDeadline ==
    \A k \in AllKeys :
        (Has(_cache, k) /\ isFinite(Lookup(_cache, k).expire)
            /\ now >= Lookup(_cache, k).expire)
        => get(_cache, now, k) = Null

\* C5, amended: with a clock that advances and timers that fire, a record
\* put with a ttl is in the end replaced, deleted, cleared or removed by its
\* timer; the firing removes the key from keys(), takes one from size() and
\* runs the callback if one was given; and strictly after its deadline
\* get(k) returns null, whether the timer has fired or not.
C5_ExpiresEventually ==
    /\ \A id \in 1..MaxTimers :
          (StateOf(id) = "live" /\ DueInTime(id))
          ~> (StateOf(id) = "done")
    /\ [](ret.op = "fire" =>
            /\ ~Has(_cache, ret.key)
            /\ \A i \in 1..Len(keys) : keys[i] # ret.key
            /\ hist[ret.n].st = "done"
            /\ get(_cache, now, ret.key) = Null)
    /\ [][ret'.op = "fire" =>
            /\ size' = size - 1
            /\ hist[ret'.n].cb = "function" => hist'[ret'.n].n = 1]_vars
    /\ [](\A k \in AllKeys :
            (Has(_cache, k) /\ now > Lookup(_cache, k).expire)
            => get(_cache, now, k) = Null)

\* A timer with a callback fired and removed its record after the record's
\* deadline had passed.
C5_Witness ==
    /\ ret.op = "fire"
    /\ hist[ret.n].st = "done"
    /\ hist[ret.n].n = 1
    /\ now >= 2

(* ---------------------------- C6 --------------------------------------- *)

\* C6: a put whose ttl is negative or zero, or whose callback is given and
\* is no function, throws and leaves the records, size, the pending timers
\* and the hit and miss counters as they were.
C6_FailedPutChangesNothing ==
    /\ [](\A k \in Keys, v \in Values, time \in Times, cb \in Callbacks :
            ((time.kind = "number" /\ time.num <= 0) \/ cb = "string")
            => Threw(put(Self, now, k, v, time, cb).res))
    /\ [][(ret'.op = "put" /\ Threw(ret'.res))
            => UNCHANGED <<_cache, _size, timers, nextId, _hitCount, _missCount>>]_vars

\* A put threw on a cache that holds a record with a pending timer and has
\* counted a hit.
C6_Witness ==
    /\ ret.op = "put"
    /\ Threw(ret.res)
    /\ size = 1
    /\ timers # {}
    /\ _hitCount > 0

(* ---------------------------- C7 --------------------------------------- *)

\* C7: put(k, v, Infinity) throws 'Cache timeout must be a positive number'
\* and stores nothing.
C7_InfiniteTtlRejected ==
    [][\A k \in AllKeys, v \in Values, cb \in {"undefined", "function"} :
          Put(k, v, Num(Infinity), cb)
          => /\ ret'.res = TimeoutError
             /\ UNCHANGED <<_cache, _size, timers>>]_vars

(* ---------------------------- C8 --------------------------------------- *)

\* Is the timer of record e pending?
HasArmedTimer(e) == \E t \in timers : t.id = e.timeout

\* C8: the deadline of a stored record is Infinity if and only if the
\* record has no pending timer.
C8_InfiniteIffNoTimer ==
    \A i \in 1..Len(_cache) :
        (_cache[i].expire = Infinity) <=> ~HasArmedTimer(_cache[i])

(* ---------------------------- C9 --------------------------------------- *)

\* C9: after an import that overwrites, the record of every member whose
\* expire is "NaN" has no timer; and a stored record without a deadline
\* leaves the cache only by del or clear.
C9_NoExpiryImportedWithoutTimer ==
    /\ []((ret.op = "importJson" /\ ret.key = "" /\ ret.res = "ok") =>
            \A i \in 1..Len(json) :
                json[i].type = "string" =>
                    /\ Has(_cache, json[i].key)
                    /\ Lookup(_cache, json[i].key).timeout = NoTimeout
                    /\ ~HasArmedTimer(Lookup(_cache, json[i].key)))
    /\ [][\A k \in AllKeys :
            (last[k].stored /\ last[k].expire = Infinity /\ ~Has(_cache', k))
            => ret'.op \in {"del", "clear"}]_vars

(* ---------------------------- C10 -------------------------------------- *)

\* The records exported that an import at the current time is to insert:
\* those whose deadline is later than now.
Alive(ex) == {ex[i] : i \in {j \in 1..Len(ex) : ex[j].expire > now}}

\* C10: importing the exported text into a fresh cache succeeds, the fresh
\* cache then holds exactly the exported keys whose deadline is later than
\* the time of the import, each with the value exported, and importJson
\* returned the fresh cache's size().
C10_RoundTrip ==
    ret.op = "importFresh" =>
        LET r == importJson(NewCache, now, json, FALSE)
        IN  /\ ret.res = "ok"
            /\ CacheKeys(r.w.cache) = {e.key : e \in Alive(exported)}
            /\ \A e \in Alive(exported) : Lookup(r.w.cache, e.key).value = e.value
            /\ ret.n = r.w.size
            /\ ret.n = Cardinality(CacheKeys(r.w.cache))

(* ---------------------------- C11 -------------------------------------- *)

\* In the world w, member m of the imported text has a record whose deadline
\* is the member's and whose timer is pending and due at that deadline.
KeepsDeadline(w, m) ==
    /\ Has(w.cache, m.key)
    /\ Lookup(w.cache, m.key).expire = m.num
    /\ \E t \in w.timers :
          /\ t.id = Lookup(w.cache, m.key).timeout
          /\ t.due = m.num

\* C11: after an import at time t, into the cache without skipDuplicates or
\* into a fresh cache, every member of the text with a finite deadline D > t
\* has a record with deadline D whose timer is due at D.
C11_ImportKeepsDeadline ==
    /\ (ret.op = "importJson" /\ ret.key = "") =>
          \A i \in 1..Len(json) :
              (json[i].type = "number" /\ json[i].num > now)
              => KeepsDeadline(Self, json[i])
    /\ ret.op = "importFresh" =>
          \A i \in 1..Len(json) :
              (json[i].type = "number" /\ json[i].num > now)
              => KeepsDeadline(importJson(NewCache, now, json, FALSE).w, json[i])

(* ---------------------------- C12 -------------------------------------- *)

\* The pending timers of key k.
TimersOf(T, k) == {t \in T : t.key = k}

\* C12: an import with skipDuplicates leaves the record and the pending
\* timer of every key that the cache holds as they were, and adds to size()
\* the number of keys it inserted; an import without skipDuplicates replaces
\* the record of a held key by the member of that key, if the member's
\* deadline is later than now.
C12_SkipDuplicatesKeepsRecords ==
    /\ [][(ret'.op = "importJson" /\ ret'.key = "skip") =>
            /\ \A k \in CacheKeys(_cache) :
                  /\ Has(_cache', k)
                  /\ Lookup(_cache', k) = Lookup(_cache, k)
                  /\ TimersOf(timers', k) = TimersOf(timers, k)
            /\ size' = size + Cardinality(CacheKeys(_cache') \ CacheKeys(_cache))]_vars
    /\ [][(ret'.op = "importJson" /\ ret'.key = "") =>
            \A i \in 1..Len(json) :
                (Has(_cache, json[i].key)
                    /\ (json[i].type = "number" => json[i].num > now))
                => /\ Has(_cache', json[i].key)
                   /\ Lookup(_cache', json[i].key).value = JsonParse(json[i].value)
                   /\ Lookup(_cache', json[i].key).expire =
                        IF json[i].type = "number" THEN json[i].num ELSE Infinity]_vars

(* ---------------------------- C13 -------------------------------------- *)

\* C13: del(k) returns true exactly when k is stored.  When it returns false
\* the records, size(), the timers and the counters stay as they were.  When
\* it returns true the record of k is gone, its pending timer is cancelled,
\* size() is one less, every other record and timer is as it was and in
\* its place, and the same del called again would return false.
C13_DelRemovesExactlyOne ==
    /\ [][ret'.op = "del" =>
            /\ (ret'.res = "true") <=> Has(_cache, ret'.key)
            /\ ret'.res \in {"true", "false"}
            /\ ret'.res = "false" =>
                  UNCHANGED <<_cache, _size, timers, nextId, _hitCount, _missCount>>
            /\ ret'.res = "true" =>
                  /\ ~Has(_cache', ret'.key)
                  /\ _cache' = SelectSeq(_cache, LAMBDA e : e.key # ret'.key)
                  /\ timers' = timers \ TimersOf(timers, ret'.key)
                  /\ TimersOf(timers', ret'.key) = {}
                  /\ size' = size - 1
                  /\ UNCHANGED <<_hitCount, _missCount>>]_vars
    /\ [](ret.op = "del" => del(Self, ret.key).res = "false")

\* del returned true for a record whose timer was pending, and left the
\* other key's record and its pending timer.
C13_Witness ==
    /\ ret.op = "del"
    /\ ret.res = "true"
    /\ Len(hist) = 2
    /\ \E i \in 1..2 : hist[i].st = "done" /\ hist[3 - i].st = "live"
    /\ Cardinality(timers) = 1
    /\ size = 1

(* ---------------------------- C14 -------------------------------------- *)

\* C14: right after clear() size() is 0, keys() is empty, get returns null
\* for every key and no timer is pending; a timer that fires is the timer of
\* a record that is stored, hence of a record put after every clear so far,
\* and no timer ever fired for a record that had been cleared; the records
\* stored are those of the puts and imports since the clear.
C14_ClearCancelsEverything ==
    /\ [](ret.op = "clear" =>
            /\ size = 0
            /\ keys = <<>>
            /\ \A k \in AllKeys : get(_cache, now, k) = Null
            /\ timers = {}
            /\ \A i \in 1..Len(hist) : hist[i].st = "done")
    /\ [][ret'.op = "fire" =>
            /\ hist[ret'.n].st = "live"
            /\ Has(_cache, ret'.key)
            /\ Lookup(_cache, ret'.key).timeout = ret'.n]_vars
    /\ [](\A i \in 1..Len(hist) : hist[i].st # "stale")
    /\ [](\A k \in AllKeys : Has(_cache, k) <=> last[k].stored)
    /\ [](size >= 0)

\* clear() has just run, before any timer was due, on a cache that two
\* puts with a ttl had been made on; no callback has run.
C14_Witness ==
    /\ ret.op = "clear"
    /\ now = 0
    /\ Len(hist) = 2
    /\ hist[1].st = "done" /\ hist[2].st = "done"
    /\ hist[1].n = 0 /\ hist[2].n = 0
    /\ \A k \in Keys : ~last[k].stored

(* ---------------------------- C15 -------------------------------------- *)

\* C15: keys() lists the keys that are stored, each once, in the order of
\* their first insertion: a put of a key that is not stored adds the key at
\* the end, a put of a stored key leaves keys() as it is.
C15_KeysInInsertionOrder ==
    /\ [](/\ Seq2Set(keys) = {k \in AllKeys : last[k].stored}
          /\ Len(keys) = Cardinality(Seq2Set(keys)))
    /\ [][(ret'.op = "put" /\ ~Threw(ret'.res)) =>
            keys' = IF Has(_cache, ret'.key) THEN keys
                    ELSE Append(keys, ret'.key)]_vars

(* ---------------------------- C16 -------------------------------------- *)

C17_GetIsReadOnly ==
    /\ [][ret'.op = "get" =>
            /\ UNCHANGED <<_cache, _size, timers, nextId>>
            /\ keys' = keys
            /\ size' = size]_vars
    /\ [](\A k \in AllKeys :
            (Has(_cache, k) /\ Lookup(_cache, k).expire < now) =>
                /\ get(_cache, now, k) = Null
                /\ \E i \in 1..Len(keys) : keys[i] = k
                /\ size = Cardinality(CacheKeys(_cache))
                /\ \E i \in 1..Len(exportJson(_cache)) :
                      exportJson(_cache)[i].key = k)

(* ---------------------------- C18 -------------------------------------- *)

\* The pending timer that the step to the next state fires.
Fired == CHOOSE t \in timers : t.id = ret'.n

\* C18: when a timer fires, the callback is called on a cache from which the
\* record is gone and whose size() is one less: get of the key is null
\* there.  A callback that puts its key again leaves a new record of that
\* key, which the firing does not remove and which has no timer; any other
\* firing leaves the key absent and size() one less.
C18_RemovedBeforeCallback ==
    [][ret'.op = "fire" =>
        LET t == Fired
            r == Closure(Self, now, t)
        IN  /\ ~Has(r.mid.cache, t.key)
            /\ get(r.mid.cache, now, t.key) = Null
            /\ r.mid.size = size - 1
            /\ r.mid.size = Cardinality(CacheKeys(r.mid.cache))
            /\ t \notin r.mid.timers
            /\ IF t.cb = "reput"
               THEN /\ Has(_cache', t.key)
                    /\ Lookup(_cache', t.key).value = t.value
                    /\ Lookup(_cache', t.key).timeout = NoTimeout
                    /\ get(_cache', now, t.key) = t.value
                    /\ size' = size
               ELSE /\ ~Has(_cache', t.key)
                    /\ size' = size - 1]_vars

\* A timer fired whose callback put its key again: the key is stored, by a
\* record without a timer, next to the other key's record.
C18_Witness ==
    /\ ret.op = "fire"
    /\ hist[ret.n].n = 1
    /\ Has(_cache, ret.key)
    /\ Lookup(_cache, ret.key).timeout = NoTimeout
    /\ last[ret.key].stored
    /\ size = 2

(* ---------------------------- C19 -------------------------------------- *)

\* C19: at every time, a key whose get returns a value is a key that an
\* import of the cache's export into a fresh cache at that time inserts.
C19_GetAndImportAgree ==
    \A k \in AllKeys :
        get(_cache, now, k) # Null
        => Has(importJson(NewCache, now, exportJson(_cache), FALSE).w.cache, k)

(* ---------------------------- C20 -------------------------------------- *)

\* C20: right after an import with skipDuplicates, get returns a value for
\* the key of every member of the text whose deadline is later than now.
C20_SkipDuplicatesLeavesLive ==
    (ret.op = "importJson" /\ ret.key = "skip") =>
        \A i \in 1..Len(json) :
            (json[i].type = "number" /\ json[i].num > now)
            => get(_cache, now, json[i].key) # Null

====
